---- MODULE Spec2Model ----
(***************************************************************************)
(* State-machine model of the data-access layer of codes/orm_framework.py: *)
(* ConnectionPool, QueryBuilder, QueryCache, Database and Model.            *)
(*                                                                         *)
(* Python values are modelled as follows.  An Optional is a sequence of    *)
(* length 0 (None) or 1 (the value).  A dict is a sequence of <<key,       *)
(* value>> pairs in insertion order, which is the order Python iterates a  *)
(* dict in.  A connection is the ordinal of the sqlite3.connect call that  *)
(* created it.  Time is whole seconds since the program started.           *)
(***************************************************************************)
EXTENDS Integers, Sequences, FiniteSets, TLC

VARIABLES pool, held, qcache, now, hist, qb, whereCalls, store, inst, ret, ctx

vars == <<pool, held, qcache, now, hist, qb, whereCalls, store, inst, ret, ctx>>

(***************************************************************************)
(* Bounds of the model.                                                    *)
(***************************************************************************)
pool_size == 2
MaxConns == 4
max_size == 3
ttl == 1
MaxWhere == 2
MaxJoins == 2
MaxRowId == 2

Callers == {"A", "B"}

None == <<>>
Some(x) == <<x>>

(***************************************************************************)
(* ConnectionPool.  pool.connections is the idle list, pool.opened the     *)
(* number of sqlite3.connect calls made so far, pool.closed the set of     *)
(* connections on which close() was called.                                *)
(***************************************************************************)
\* _initialize_pool opens pool_size connections, numbered as opened.
ConnectionPool_init ==
    [connections |-> [i \in 1..pool_size |-> i], opened |-> pool_size, closed |-> {}]

\* sqlite3.Row is installed only on the connections _initialize_pool makes.
HasRowFactory(c) == c <= pool_size

\* A connection made by the fall-through of get_connection.
IsOverflow(c) == c > pool_size

get_connection_no_pop(p) ==
    IF p.connections # <<>>
    THEN [pool |-> p, conn |-> p.connections[Len(p.connections)]]
    ELSE [pool |-> [p EXCEPT !.opened = @ + 1],
          conn |-> p.opened + 1]

\* A pool that hands out the connection that has been idle longest.
get_connection_fifo(p) ==
    IF p.connections # <<>>
    THEN [pool |-> [p EXCEPT !.connections = Tail(@)],
          conn |-> Head(p.connections)]
    ELSE [pool |-> [p EXCEPT !.opened = @ + 1],
          conn |-> p.opened + 1]

get_connection(p) ==
    IF p.connections # <<>>
    THEN [pool |-> [p EXCEPT !.connections = SubSeq(@, 1, Len(@) - 1)],
          conn |-> p.connections[Len(p.connections)]]
    ELSE [pool |-> [p EXCEPT !.opened = @ + 1],
          conn |-> p.opened + 1]

return_connection_off_by_one(p, conn) ==
    IF Len(p.connections) <= pool_size
    THEN [p EXCEPT !.connections = Append(@, conn)]
    ELSE [p EXCEPT !.closed = @ \cup {conn}]

return_connection(p, conn) ==
    IF Len(p.connections) < pool_size
    THEN [p EXCEPT !.connections = Append(@, conn)]
    ELSE [p EXCEPT !.closed = @ \cup {conn}]

\* A close_all that closes every connection the pool ever opened.
close_all_opened(p) ==
    [p EXCEPT !.closed = @ \cup (1..p.opened)]

close_all(p) ==
    [p EXCEPT !.closed = @ \cup {p.connections[i] : i \in 1..Len(p.connections)}]

\* get_connection can run: the model opens at most MaxConns connections.
CanAcquire(p) == p.connections # <<>> \/ p.opened < MaxConns

IdleSet(p) == {p.connections[i] : i \in 1..Len(p.connections)}

(***************************************************************************)
(* Callers of the pool.  held[a] is the set of connections caller a has    *)
(* acquired and not yet released.                                          *)
(***************************************************************************)
Acquire(a) ==
    /\ CanAcquire(pool)
    /\ LET r == get_connection(pool) IN
        /\ pool' = r.pool
        /\ held' = [held EXCEPT ![a] = @ \cup {r.conn}]
        /\ ret' = [op |-> "get_connection", conn |-> r.conn, by |-> a]
    /\ UNCHANGED <<qcache, now, hist, qb, whereCalls, ctx, store, inst>>

Release(a) ==
    \E c \in held[a] :
        /\ pool' = return_connection(pool, c)
        /\ held' = [held EXCEPT ![a] = @ \ {c}]
        /\ ret' = [op |-> "return_connection", conn |-> c, by |-> a]
        /\ UNCHANGED <<qcache, now, hist, qb, whereCalls, ctx, store, inst>>

CloseAll ==
    /\ pool' = close_all(pool)
    /\ ret' = [op |-> "close_all", conn |-> 0, by |-> ""]
    /\ UNCHANGED <<held, qcache, now, hist, qb, whereCalls, ctx, store, inst>>

\* Caller a calls return_connection on a connection that is idle in the
\* pool already: a second release with no acquire in between.
ReleaseAgain(a) ==
    \E c \in IdleSet(pool) \ held[a] :
        /\ pool' = return_connection(pool, c)
        /\ ret' = [op |-> "return_connection", conn |-> c, by |-> a]
        /\ UNCHANGED <<held, qcache, now, hist, qb, whereCalls, ctx, store, inst>>

(***************************************************************************)
(* Python dicts, in insertion order.                                       *)
(***************************************************************************)
DictKeys(d) == {d[i][1] : i \in 1..Len(d)}

DictHas(d, k) == k \in DictKeys(d)

DictIndex(d, k) == CHOOSE i \in 1..Len(d) : d[i][1] = k

DictGet(d, k) == d[DictIndex(d, k)][2]

\* d[k] = v: a present key keeps its place, a new key goes last.
DictSet(d, k, v) ==
    IF DictHas(d, k)
    THEN [d EXCEPT ![DictIndex(d, k)] = <<k, v>>]
    ELSE Append(d, <<k, v>>)

\* del d[k]
DictDel(d, k) ==
    LET i == DictIndex(d, k) IN SubSeq(d, 1, i - 1) \o SubSeq(d, i + 1, Len(d))

(***************************************************************************)
(* The clock datetime.now() reads, and timedelta.seconds.                  *)
(***************************************************************************)
SecondsPerDay == 86400

\* timedelta normalises to days and 0 <= seconds < 86400; .seconds is the
\* second component alone, whatever the number of days (negative included).
timedelta_seconds(d) == d % SecondsPerDay

(***************************************************************************)
(* QueryCache.  qc.cache and qc.timestamps are the two dicts.              *)
(***************************************************************************)
Keys == {"k1", "k2", "k3"}
Values == {"v1", "v2"}

QueryCache_init == [cache |-> <<>>, timestamps |-> <<>>]

Expired(inserted, t) == timedelta_seconds(t - inserted) > ttl

\* A lookup that sweeps: it removes every expired entry, not only key's.
QueryCache_get_sweeps(qc, t, key) ==
    LET fresh(d) == SelectSeq(d, LAMBDA e : ~Expired(DictGet(qc.timestamps, e[1]), t))
    IN [qc |-> [cache |-> fresh(qc.cache), timestamps |-> fresh(qc.timestamps)],
        val |-> IF DictHas(fresh(qc.cache), key)
                THEN Some(DictGet(qc.cache, key)) ELSE None]

\* A lookup that forgets the timestamp of the entry it removes.
QueryCache_get_keeps_timestamp(qc, t, key) ==
    IF ~DictHas(qc.cache, key)
    THEN [qc |-> qc, val |-> None]
    ELSE IF Expired(DictGet(qc.timestamps, key), t)
    THEN [qc |-> [cache |-> DictDel(qc.cache, key), timestamps |-> qc.timestamps],
          val |-> None]
    ELSE [qc |-> qc, val |-> Some(DictGet(qc.cache, key))]

QueryCache_get(qc, t, key) ==
    IF ~DictHas(qc.cache, key)
    THEN [qc |-> qc, val |-> None]
    ELSE IF Expired(DictGet(qc.timestamps, key), t)
    THEN [qc |-> [cache |-> DictDel(qc.cache, key),
                  timestamps |-> DictDel(qc.timestamps, key)],
          val |-> None]
    ELSE [qc |-> qc, val |-> Some(DictGet(qc.cache, key))]

\* min(self.timestamps, key=self.timestamps.get): the first key, in the
\* dict's order, among those with the least timestamp.
oldest_key(ts) ==
    LET i == CHOOSE i \in 1..Len(ts) :
                 \A j \in 1..Len(ts) :
                     ts[i][2] < ts[j][2] \/ (ts[i][2] = ts[j][2] /\ i <= j)
    IN ts[i][1]

CacheIsFull_off_by_one(qc) == Len(qc.cache) > max_size

CacheIsFull(qc) == Len(qc.cache) >= max_size

QueryCache_set(qc, t, key, value) ==
    LET q1 == IF CacheIsFull(qc)
              THEN [cache |-> DictDel(qc.cache, oldest_key(qc.timestamps)),
                    timestamps |-> DictDel(qc.timestamps, oldest_key(qc.timestamps))]
              ELSE qc
    IN [cache |-> DictSet(q1.cache, key, value),
        timestamps |-> DictSet(q1.timestamps, key, t)]

QueryCache_clear(qc) == [cache |-> <<>>, timestamps |-> <<>>]

(***************************************************************************)
(* History of the calls made on the cache for key "k1", kept to state the  *)
(* properties that speak of an earlier set: the value of the last          *)
(* set("k1", v) since the last clear, the clock it read, and the number of *)
(* set calls on other keys made since.                                     *)
(***************************************************************************)
K == "k1"

NoHist == [val |-> None, at |-> 0, others |-> 0]

HistAfterSet(h, t, key, value) ==
    IF key = K
    THEN [val |-> Some(value), at |-> t, others |-> 0]
    ELSE IF h.val = None THEN h
    ELSE [h EXCEPT !.others = IF @ < max_size THEN @ + 1 ELSE @]

(***************************************************************************)
(* Direct use of a QueryCache.                                             *)
(***************************************************************************)
CacheGet(k) ==
    /\ LET r == QueryCache_get(qcache, now, k) IN
        /\ qcache' = r.qc
        /\ ret' = [op |-> "get", key |-> k, val |-> r.val]
    /\ UNCHANGED <<pool, held, now, hist, qb, whereCalls, ctx, store, inst>>

CacheSet(k, v) ==
    /\ qcache' = QueryCache_set(qcache, now, k, v)
    /\ hist' = HistAfterSet(hist, now, k, v)
    /\ ret' = [op |-> "set", key |-> k, val |-> Some(v)]
    /\ UNCHANGED <<pool, held, now, qb, whereCalls, ctx, store, inst>>

CacheClear ==
    /\ qcache' = QueryCache_clear(qcache)
    /\ hist' = NoHist
    /\ ret' = [op |-> "clear", key |-> "", val |-> None]
    /\ UNCHANGED <<pool, held, now, qb, whereCalls, ctx, store, inst>>

\* A second passes.
Tick ==
    /\ now % SecondsPerDay < ttl + 1
    /\ now' = now + 1
    /\ UNCHANGED <<pool, held, qcache, hist, qb, whereCalls, ctx, store, inst, ret>>

\* A day passes.
TickDay ==
    /\ now < SecondsPerDay
    /\ now' = now + SecondsPerDay
    /\ UNCHANGED <<pool, held, qcache, hist, qb, whereCalls, ctx, store, inst, ret>>

\* The wall clock datetime.now() reads is set back by a second (an NTP step,
\* the end of daylight saving time).
ClockBack ==
    /\ now % SecondsPerDay > 0
    /\ now' = now - 1
    /\ UNCHANGED <<pool, held, qcache, hist, qb, whereCalls, ctx, store, inst, ret>>

(***************************************************************************)
(* QueryBuilder.  A SQL text is the sequence of the strings the code       *)
(* concatenates; Text gives the string itself.                             *)
(***************************************************************************)
RECURSIVE Text(_)
Text(pieces) ==
    IF pieces = <<>> THEN "" ELSE Head(pieces) \o Text(Tail(pieces))

\* sep.join(items), as pieces.
RECURSIVE join_pieces(_, _)
join_pieces(sep, items) ==
    IF items = <<>> THEN <<>>
    ELSE IF Len(items) = 1 THEN <<items[1]>>
    ELSE <<items[1], sep>> \o join_pieces(sep, Tail(items))

\* Python's truth value of an Optional[int]: None and 0 are false.
TruthyInt(o) == o # None /\ o[1] # 0

\* Python's truth value of an Optional[str] and of a list.
TruthyStr(o) == o # None /\ o[1] # ""

TruthyList(l) == l # <<>>

QueryBuilder_init(table) ==
    [table |-> table,
     select_fields |-> <<"*">>,
     where_clauses |-> <<>>,
     where_values |-> <<>>,
     joins |-> <<>>,
     order_by_clause |-> None,
     limit_value |-> None,
     offset_value |-> None]

select(q, fields) == [q EXCEPT !.select_fields = fields]

where_prepends(q, condition, values) ==
    [q EXCEPT !.where_clauses = Append(@, condition),
              !.where_values = values \o @]

where(q, condition, values) ==
    [q EXCEPT !.where_clauses = Append(@, condition),
              !.where_values = @ \o values]

join(q, other_table, on) ==
    [q EXCEPT !.joins = Append(@, "JOIN " \o other_table \o " ON " \o on)]

left_join(q, other_table, on) ==
    [q EXCEPT !.joins = Append(@, "LEFT JOIN " \o other_table \o " ON " \o on)]

order_by(q, field, direction) ==
    [q EXCEPT !.order_by_clause = Some("ORDER BY " \o field \o " " \o direction)]

limit(q, n) == [q EXCEPT !.limit_value = Some(n)]

offset(q, n) == [q EXCEPT !.offset_value = Some(n)]

build_offset_before_limit(q) ==
    LET s0 == <<"SELECT ", Text(join_pieces(", ", q.select_fields)), " FROM ", q.table>>
        s1 == IF TruthyList(q.joins)
              THEN s0 \o <<" ">> \o join_pieces(" ", q.joins) ELSE s0
        s2 == IF TruthyList(q.where_clauses)
              THEN s1 \o <<" WHERE ">> \o join_pieces(" AND ", q.where_clauses) ELSE s1
        s3 == IF TruthyStr(q.order_by_clause)
              THEN s2 \o <<" ", q.order_by_clause[1]>> ELSE s2
        s4 == IF TruthyInt(q.offset_value)
              THEN s3 \o <<" OFFSET ", ToString(q.offset_value[1])>> ELSE s3
        s5 == IF TruthyInt(q.limit_value)
              THEN s4 \o <<" LIMIT ", ToString(q.limit_value[1])>> ELSE s4
    IN [sql |-> s5, values |-> q.where_values]

build(q) ==
    LET s0 == <<"SELECT ", Text(join_pieces(", ", q.select_fields)), " FROM ", q.table>>
        s1 == IF TruthyList(q.joins)
              THEN s0 \o <<" ">> \o join_pieces(" ", q.joins) ELSE s0
        s2 == IF TruthyList(q.where_clauses)
              THEN s1 \o <<" WHERE ">> \o join_pieces(" AND ", q.where_clauses) ELSE s1
        s3 == IF TruthyStr(q.order_by_clause)
              THEN s2 \o <<" ", q.order_by_clause[1]>> ELSE s2
        s4 == IF TruthyInt(q.limit_value)
              THEN s3 \o <<" LIMIT ", ToString(q.limit_value[1])>> ELSE s3
        s5 == IF TruthyInt(q.offset_value)
              THEN s4 \o <<" OFFSET ", ToString(q.offset_value[1])>> ELSE s4
    IN [sql |-> s5, values |-> q.where_values]

(***************************************************************************)
(* A caller of one QueryBuilder on table "t".  whereCalls is the sequence  *)
(* of the arguments of the where() calls made so far.                      *)
(***************************************************************************)
\* The number of "?" in each predicate fragment the callers pass.
Placeholders(condition) ==
    CASE condition = "a = ?" -> 1
      [] condition = "b = ?" -> 1
      [] condition = "c IS NULL" -> 0
      [] condition = "d BETWEEN ? AND ?" -> 2

\* The arguments callers pass to where(): with as many values as
\* placeholders, with too few, and with too many.
WhereArgs ==
    { [condition |-> "a = ?", values |-> <<1>>],
      [condition |-> "b = ?", values |-> <<2>>],
      [condition |-> "c IS NULL", values |-> <<>>],
      [condition |-> "d BETWEEN ? AND ?", values |-> <<3, 4>>],
      [condition |-> "a = ?", values |-> <<>>],
      [condition |-> "c IS NULL", values |-> <<5>>] }

LimitArgs == {0, 5}
OffsetArgs == {0, 3}

\* Every fluent method returns self.
Fluent ==
    /\ ret' = [op |-> "self"]
    /\ UNCHANGED <<pool, held, qcache, now, hist, store, inst, ctx>>

QbSelect ==
    /\ qb' = select(qb, <<"name", "email">>)
    /\ UNCHANGED whereCalls
    /\ Fluent

QbWhere ==
    /\ Len(whereCalls) < MaxWhere
    /\ \E a \in WhereArgs :
        /\ qb' = where(qb, a.condition, a.values)
        /\ whereCalls' = Append(whereCalls, a)
    /\ Fluent

QbJoin ==
    /\ Len(qb.joins) < MaxJoins
    /\ qb' = join(qb, "u", "u.id = t.uid")
    /\ UNCHANGED whereCalls
    /\ Fluent

QbLeftJoin ==
    /\ Len(qb.joins) < MaxJoins
    /\ qb' = left_join(qb, "v", "v.id = t.vid")
    /\ UNCHANGED whereCalls
    /\ Fluent

QbOrderBy ==
    /\ \E d \in {"ASC", "DESC"} : qb' = order_by(qb, "name", d)
    /\ UNCHANGED whereCalls
    /\ Fluent

QbLimit ==
    /\ \E n \in LimitArgs : qb' = limit(qb, n)
    /\ UNCHANGED whereCalls
    /\ Fluent

QbOffset ==
    /\ \E n \in OffsetArgs : qb' = offset(qb, n)
    /\ UNCHANGED whereCalls
    /\ Fluent

QbBuild ==
    /\ LET b == build(qb) IN
        ret' = [op |-> "build", sql |-> b.sql, values |-> b.values]
    /\ UNCHANGED <<pool, held, qcache, now, hist, qb, whereCalls, ctx, store, inst>>

(***************************************************************************)
(* Python values that travel as SQL parameters, column values and          *)
(* attribute values: an int, a str or None.                                *)
(***************************************************************************)
IntV(i) == [t |-> "int", i |-> i, s |-> ""]
StrV(s) == [t |-> "str", i |-> 0, s |-> s]
NoneV == [t |-> "none", i |-> 0, s |-> ""]

\* Python's truth value.
Truthy(v) ==
    CASE v.t = "int" -> v.i # 0
      [] v.t = "str" -> v.s # ""
      [] OTHER -> FALSE

\* repr() of a value and of a tuple of values.
py_repr(v) ==
    CASE v.t = "int" -> ToString(v.i)
      [] v.t = "str" -> "'" \o v.s \o "'"
      [] OTHER -> "None"

tuple_repr(params) ==
    IF Len(params) = 1 THEN "(" \o py_repr(params[1]) \o ",)"
    ELSE "(" \o Text(join_pieces(", ", [i \in 1..Len(params) |-> py_repr(params[i])])) \o ")"

\* f"{sql}:{params}"
cache_key(sql, params) == sql \o ":" \o tuple_repr(params)

(***************************************************************************)
(* The backing store: the table users(id INTEGER PRIMARY KEY               *)
(* AUTOINCREMENT, email TEXT NOT NULL UNIQUE) of one sqlite database file. *)
(* store.rows are the rows in rowid order, store.seq the largest id ever   *)
(* used.  sqlite_execute interprets the statements the program issues.     *)
(***************************************************************************)
Emails == {"a@x.com", "b@x.com"}

tablename == "users"

Store_init == [created |-> FALSE, rows |-> <<>>, seq |-> 0]

Parse(sql) ==
    CASE sql = "CREATE TABLE IF NOT EXISTS users (id INTEGER PRIMARY KEY AUTOINCREMENT, email TEXT NOT NULL UNIQUE)"
            -> [kind |-> "create", cols |-> <<>>]
      [] sql = "INSERT INTO users (email) VALUES (?)"
            -> [kind |-> "insert", cols |-> <<"email">>]
      [] sql = "INSERT INTO users (id, email) VALUES (?, ?)"
            -> [kind |-> "insert", cols |-> <<"id", "email">>]
      [] sql = "INSERT INTO users (email, id) VALUES (?, ?)"
            -> [kind |-> "insert", cols |-> <<"email", "id">>]
      [] sql = "INSERT INTO users (id) VALUES (?)"
            -> [kind |-> "insert", cols |-> <<"id">>]
      [] sql = "UPDATE users SET email = ? WHERE id = ?"
            -> [kind |-> "update", cols |-> <<"email", "id">>]
      [] sql = "DELETE FROM users WHERE id = ?"
            -> [kind |-> "delete", cols |-> <<"id">>]
      [] sql = "SELECT * FROM users"
            -> [kind |-> "select", cols |-> <<>>]
      [] sql = "SELECT * FROM users WHERE id = ?"
            -> [kind |-> "select", cols |-> <<"id">>]
      [] sql = "SELECT * FROM users WHERE email = ?"
            -> [kind |-> "select", cols |-> <<"email">>]
      [] OTHER -> [kind |-> "syntax error", cols |-> <<>>]

\* The parameter bound to column col, NULL when the statement does not name it.
Param(cols, params, col) ==
    IF \E i \in 1..Len(cols) : cols[i] = col /\ i <= Len(params)
    THEN params[CHOOSE i \in 1..Len(cols) : cols[i] = col]
    ELSE NoneV

RowIds(rows) == {rows[i].id : i \in 1..Len(rows)}

RowEmails(rows) == {rows[i].email : i \in 1..Len(rows)}

MaxOf(S) == IF S = {} THEN 0 ELSE CHOOSE m \in S : \A x \in S : x <= m

\* A column of a row equals a parameter (NULL equals nothing).
Matches(row, col, v) ==
    CASE col = "id" -> v.t = "int" /\ row.id = v.i
      [] col = "email" -> v.t = "str" /\ row.email = v.s
      [] OTHER -> FALSE

RECURSIVE SelectRows(_, _, _)
SelectRows(rows, col, v) ==
    IF rows = <<>> THEN <<>>
    ELSE (IF Matches(Head(rows), col, v) THEN <<Head(rows)>> ELSE <<>>)
         \o SelectRows(Tail(rows), col, v)

RECURSIVE RemoveRows(_, _, _)
RemoveRows(rows, col, v) ==
    IF rows = <<>> THEN <<>>
    ELSE (IF Matches(Head(rows), col, v) THEN <<>> ELSE <<Head(rows)>>)
         \o RemoveRows(Tail(rows), col, v)

\* Rows are kept in rowid order.
RECURSIVE InsertRow(_, _)
InsertRow(rows, r) ==
    IF rows = <<>> THEN <<r>>
    ELSE IF r.id < Head(rows).id THEN <<r>> \o rows
    ELSE <<Head(rows)>> \o InsertRow(Tail(rows), r)

Failure(st) == [ok |-> FALSE, store |-> st, rows |-> <<>>]

Done(st) == [ok |-> TRUE, store |-> st, rows |-> <<>>]

\* The id of an inserted row: the one given, or the next of the sequence.
NewId(st, idv) ==
    IF idv.t = "int" THEN idv.i ELSE MaxOf(RowIds(st.rows) \cup {st.seq}) + 1

InsertValues(st, idv, ev, id) ==
    IF \/ ev.t # "str"
       \/ idv.t = "str"
       \/ id \in RowIds(st.rows)
       \/ ev.s \in RowEmails(st.rows)
    THEN Failure(st)
    ELSE Done([st EXCEPT !.rows = InsertRow(@, [id |-> id, email |-> ev.s]),
                         !.seq = MaxOf({@, id})])

sqlite_insert(st, cols, params) ==
    IF Len(params) # Len(cols) THEN Failure(st)
    ELSE InsertValues(st, Param(cols, params, "id"), Param(cols, params, "email"),
                      NewId(st, Param(cols, params, "id")))

UpdateValues(st, idv, ev) ==
    IF SelectRows(st.rows, "id", idv) = <<>> THEN Done(st)
    ELSE IF ev.t # "str" \/ ev.s \in RowEmails(RemoveRows(st.rows, "id", idv))
    THEN Failure(st)
    ELSE Done([st EXCEPT !.rows =
                  [i \in 1..Len(@) |->
                      IF Matches(@[i], "id", idv)
                      THEN [@[i] EXCEPT !.email = ev.s] ELSE @[i]]])

sqlite_update(st, cols, params) ==
    IF Len(params) # Len(cols) THEN Failure(st)
    ELSE UpdateValues(st, Param(cols, params, "id"), Param(cols, params, "email"))

sqlite_delete(st, params) ==
    IF Len(params) # 1 THEN Failure(st)
    ELSE Done([st EXCEPT !.rows = RemoveRows(@, "id", params[1])])

sqlite_select(st, cols, params) ==
    IF Len(params) # Len(cols) THEN Failure(st)
    ELSE [ok |-> TRUE, store |-> st,
          rows |-> IF cols = <<>> THEN st.rows
                   ELSE SelectRows(st.rows, cols[1], params[1])]

Run(st, conn_closed, p, params) ==
    IF conn_closed \/ p.kind = "syntax error" THEN Failure(st)
    ELSE IF p.kind = "create" THEN Done([st EXCEPT !.created = TRUE])
    ELSE IF ~st.created THEN Failure(st)
    ELSE CASE p.kind = "insert" -> sqlite_insert(st, p.cols, params)
           [] p.kind = "update" -> sqlite_update(st, p.cols, params)
           [] p.kind = "delete" -> sqlite_delete(st, params)
           [] p.kind = "select" -> sqlite_select(st, p.cols, params)

\* cursor.execute(sql, params) on a connection, and the commit that follows.
sqlite_execute(st, conn_closed, sql, params) == Run(st, conn_closed, Parse(sql), params)

\* dict(row) of a sqlite3.Row.
RowDict(r) == <<<<"id", IntV(r.id)>>, <<"email", StrV(r.email)>>>>

(***************************************************************************)
(* What fetch_one and fetch_all return and the cache stores: None, one     *)
(* row dict, or a list of row dicts.                                       *)
(***************************************************************************)
NoResult == [kind |-> "none", row |-> <<>>, rows |-> <<>>]
OneRow(d) == [kind |-> "dict", row |-> d, rows |-> <<>>]
RowList(l) == [kind |-> "list", row |-> <<>>, rows |-> l]

TruthyResult(r) ==
    CASE r.kind = "dict" -> r.row # <<>>
      [] r.kind = "list" -> r.rows # <<>>
      [] OTHER -> FALSE

\* The value QueryCache.get returned, as a result.
Cached(val) == IF val = None THEN NoResult ELSE val[1]

(***************************************************************************)
(* Database.  db is the record of its pool, its cache and the store; each  *)
(* operation returns the record after the call with what the call          *)
(* returned (val) and whether it returned or raised (ok).                  *)
(***************************************************************************)
\* An execute that gives the connection back only when the statement ran.
Executed_keeps_on_failure(db, g, r) ==
    [db |-> [db EXCEPT !.store = r.store,
                       !.pool = IF r.ok THEN return_connection(g.pool, g.conn)
                                ELSE g.pool],
     ok |-> r.ok, val |-> NoResult, hit |-> FALSE]

Executed(db, g, r) ==
    [db |-> [db EXCEPT !.store = r.store,
                       !.pool = return_connection(g.pool, g.conn)],
     ok |-> r.ok, val |-> NoResult, hit |-> FALSE]

ExecuteOn(db, g, sql, params) ==
    Executed(db, g, sqlite_execute(db.store, g.conn \in db.pool.closed, sql, params))

Database_execute(db, sql, params) == ExecuteOn(db, get_connection(db.pool), sql, params)

\* result = dict(row) if row else None; results = [dict(row) for row in rows]
FetchResult(rows, one) ==
    IF one
    THEN (IF rows # <<>> THEN OneRow(RowDict(rows[1])) ELSE NoResult)
    ELSE RowList([i \in 1..Len(rows) |-> RowDict(rows[i])])

\* if result: self.cache.set(cache_key, result)
CacheResult(db, t, key, result) ==
    [db |-> IF TruthyResult(result)
            THEN [db EXCEPT !.qcache = QueryCache_set(@, t, key, result)]
            ELSE db,
     ok |-> TRUE, val |-> result, hit |-> FALSE]

\* dict(row) needs the connection's row_factory.
Fetched(db, t, key, row_factory, r, one) ==
    IF r.ok /\ (r.rows = <<>> \/ row_factory)
    THEN CacheResult(db, t, key, FetchResult(r.rows, one))
    ELSE [db |-> db, ok |-> FALSE, val |-> NoResult, hit |-> FALSE]

FetchOn(db, t, key, g, sql, params, one) ==
    Fetched([db EXCEPT !.pool = return_connection(g.pool, g.conn)], t, key,
            HasRowFactory(g.conn),
            sqlite_execute(db.store, g.conn \in db.pool.closed, sql, params), one)

FetchAfterGet_ignores_cache(db, t, key, c, sql, params, one) ==
    FetchOn([db EXCEPT !.qcache = c.qc], t, key, get_connection(db.pool),
            sql, params, one)

FetchAfterGet(db, t, key, c, sql, params, one) ==
    IF TruthyResult(Cached(c.val))
    THEN [db |-> [db EXCEPT !.qcache = c.qc], ok |-> TRUE, val |-> Cached(c.val),
          hit |-> TRUE]
    ELSE FetchOn([db EXCEPT !.qcache = c.qc], t, key, get_connection(db.pool),
                 sql, params, one)

FetchKeyed(db, t, key, sql, params, one) ==
    FetchAfterGet(db, t, key, QueryCache_get(db.qcache, t, key), sql, params, one)

Database_fetch_one(db, t, sql, params) ==
    FetchKeyed(db, t, cache_key(sql, params), sql, params, TRUE)

Database_fetch_all(db, t, sql, params) ==
    FetchKeyed(db, t, cache_key(sql, params), sql, params, FALSE)

Database_close(db) == [db EXCEPT !.pool = close_all(@)]

\* The column descriptors of the table users.
Column(name, type, primary_key, unique, nullable) ==
    [name |-> name, type |-> type, primary_key |-> primary_key,
     unique |-> unique, nullable |-> nullable, default |-> None]

UsersColumns ==
    <<Column("id", "INTEGER", TRUE, FALSE, TRUE),
      Column("email", "TEXT", FALSE, TRUE, FALSE)>>

col_def(col) ==
    col.name \o " " \o col.type
    \o (IF col.primary_key THEN " PRIMARY KEY AUTOINCREMENT" ELSE "")
    \o (IF ~col.nullable THEN " NOT NULL" ELSE "")
    \o (IF col.unique THEN " UNIQUE" ELSE "")
    \o (IF col.default # None THEN " DEFAULT " \o col.default[1] ELSE "")

create_table_sql(table_name, columns) ==
    "CREATE TABLE IF NOT EXISTS " \o table_name \o " ("
    \o Text(join_pieces(", ", [i \in 1..Len(columns) |-> col_def(columns[i])]))
    \o ")"

NoClearAfter(e) == [db |-> e.db, ok |-> e.ok, flag |-> e.ok]

ClearAfter_also_on_failure(e) ==
    [db |-> [e.db EXCEPT !.qcache = QueryCache_clear(@)], ok |-> e.ok, flag |-> e.ok]

ClearAfter_swallows_failure(e) ==
    [db |-> IF e.ok THEN [e.db EXCEPT !.qcache = QueryCache_clear(@)] ELSE e.db,
     ok |-> TRUE, flag |-> TRUE]

\* What follows self.execute(...) in create_table, save and delete:
\* self.cache.clear() and the return, unless execute raised.
ClearAfter(e) ==
    IF e.ok
    THEN [db |-> [e.db EXCEPT !.qcache = QueryCache_clear(@)], ok |-> TRUE, flag |-> TRUE]
    ELSE [db |-> e.db, ok |-> FALSE, flag |-> FALSE]

Database_create_table(db, table_name, columns) ==
    ClearAfter(Database_execute(db, create_table_sql(table_name, columns), <<>>))

(***************************************************************************)
(* Model, bound to the table users.  An instance is its attribute dict.    *)
(***************************************************************************)
Model_query == QueryBuilder_init(tablename)

\* cls(**dict(row)) of what fetch_one returned.  dict() of a list of
\* two-column row dicts pairs the two column names of each.
Hydrate(r) ==
    IF r.kind = "dict" THEN r.row
    ELSE <<<<r.rows[1][1][1], StrV(r.rows[1][2][1])>>>>

HydrateOne(f) ==
    IF f.ok /\ TruthyResult(f.val)
    THEN [f EXCEPT !.val = OneRow(Hydrate(f.val))]
    ELSE [f EXCEPT !.val = NoResult]

\* [cls(**dict(row)) for row in rows]; iterating a cached row dict yields
\* its keys, on which dict() raises.
HydrateAll(f) ==
    IF f.ok /\ f.val.kind = "dict"
    THEN [f EXCEPT !.ok = FALSE, !.val = NoResult]
    ELSE f

Model_fetch_one(db, t, q) ==
    HydrateOne(Database_fetch_one(db, t, Text(build(q).sql), build(q).values))

Model_fetch_all(db, t, q) ==
    HydrateAll(Database_fetch_all(db, t, Text(build(q).sql), build(q).values))

Model_find(db, t, id) == Model_fetch_one(db, t, where(Model_query, "id = ?", <<IntV(id)>>))

Model_all(db, t) == Model_fetch_all(db, t, Model_query)

Model_where(db, t, condition, values) ==
    Model_fetch_all(db, t, where(Model_query, condition, values))

Model_first(db, t, condition, values) ==
    Model_fetch_one(db, t,
        IF TruthyStr(condition) THEN where(Model_query, condition[1], values)
        ELSE Model_query)

HasId(attrs) == DictHas(attrs, "id")

IsUpdate_when_has_id(attrs) == HasId(attrs)

IsUpdate(attrs) == HasId(attrs) /\ Truthy(DictGet(attrs, "id"))

RECURSIVE WithoutId(_)
WithoutId(attrs) ==
    IF attrs = <<>> THEN <<>>
    ELSE (IF Head(attrs)[1] = "id" THEN <<>> ELSE <<Head(attrs)>>) \o WithoutId(Tail(attrs))

update_sql(a, id) ==
    [sql |-> "UPDATE " \o tablename \o " SET "
             \o Text(join_pieces(", ", [i \in 1..Len(a) |-> a[i][1] \o " = ?"]))
             \o " WHERE id = ?",
     values |-> [i \in 1..Len(a) |-> a[i][2]] \o <<id>>]

insert_sql(attrs) ==
    [sql |-> "INSERT INTO " \o tablename \o " ("
             \o Text(join_pieces(", ", [i \in 1..Len(attrs) |-> attrs[i][1]]))
             \o ") VALUES ("
             \o Text(join_pieces(", ", [i \in 1..Len(attrs) |-> "?"]))
             \o ")",
     values |-> [i \in 1..Len(attrs) |-> attrs[i][2]]]

save_sql(attrs) ==
    IF IsUpdate(attrs)
    THEN update_sql(WithoutId(attrs), DictGet(attrs, "id"))
    ELSE insert_sql(attrs)

ExecuteStatement(db, q) == Database_execute(db, q.sql, q.values)

Model_save_no_clear(db, attrs) == NoClearAfter(ExecuteStatement(db, save_sql(attrs)))

Model_save(db, attrs) == ClearAfter(ExecuteStatement(db, save_sql(attrs)))

Model_delete_clears_first(db, attrs) ==
    IF ~HasId(attrs)
    THEN [db |-> [db EXCEPT !.qcache = QueryCache_clear(@)], ok |-> TRUE, flag |-> FALSE]
    ELSE ClearAfter(Database_execute(db, "DELETE FROM " \o tablename \o " WHERE id = ?",
                                     <<DictGet(attrs, "id")>>))

delete_sql(attrs) ==
    [sql |-> "DELETE FROM " \o tablename \o " WHERE id = ?",
     values |-> <<DictGet(attrs, "id")>>]

Model_delete(db, attrs) ==
    IF ~HasId(attrs) THEN [db |-> db, ok |-> TRUE, flag |-> FALSE]
    ELSE ClearAfter(ExecuteStatement(db, delete_sql(attrs)))

(***************************************************************************)
(* One execution context using a Database and the Model bound to it.       *)
(***************************************************************************)
TheDb == [pool |-> pool, qcache |-> qcache, store |-> store]

\* The call leaves the Database as d; the store assigns ids up to MaxRowId.
DbBecomes(d) ==
    /\ d.store.seq <= MaxRowId
    /\ pool' = d.pool
    /\ qcache' = d.qcache
    /\ store' = d.store
    /\ UNCHANGED <<held, now, hist, qb, whereCalls, ctx>>

Returned(name, r) ==
    [op |-> name, ok |-> r.ok, val |-> r.val, hit |-> r.hit, flag |-> FALSE,
     before |-> Len(qcache.cache)]

\* What a write did, with the statement it passed to execute (None when
\* delete returned before making one).
WroteStatement(name, ok, flag, stmt) ==
    [op |-> name, ok |-> ok, val |-> NoResult, hit |-> FALSE, flag |-> flag,
     before |-> Len(qcache.cache), stmt |-> stmt]

\* The write statements a caller passes to Database.execute directly.
WriteStatements ==
    {[sql |-> "INSERT INTO users (email) VALUES (?)", params |-> <<StrV(e)>>] : e \in Emails}
    \cup {[sql |-> "DELETE FROM users WHERE id = ?", params |-> <<IntV(1)>>]}

\* The queries a caller passes to fetch_one and fetch_all directly.
Queries == {[sql |-> "SELECT * FROM users", params |-> <<>>]}

DbCreateTable ==
    /\ \E r \in {Database_create_table(TheDb, tablename, UsersColumns)} :
        /\ DbBecomes(r.db)
        /\ ret' = WroteStatement("create_table", r.ok, FALSE,
                Some([sql |-> create_table_sql(tablename, UsersColumns),
                      values |-> <<>>]))
    /\ UNCHANGED inst

DbExecute ==
    /\ \E w \in WriteStatements :
        \E r \in {Database_execute(TheDb, w.sql, w.params)} :
        /\ DbBecomes(r.db)
        /\ ret' = WroteStatement("execute", r.ok, FALSE,
                                  Some([sql |-> w.sql, values |-> w.params]))
    /\ UNCHANGED inst

DbFetchOneQ(q) ==
    /\ \E r \in {Database_fetch_one(TheDb, now, q.sql, q.params)} :
        /\ DbBecomes(r.db)
        /\ ret' = Returned("fetch_one", r)
    /\ UNCHANGED inst

DbFetchAllQ(q) ==
    /\ \E r \in {Database_fetch_all(TheDb, now, q.sql, q.params)} :
        /\ DbBecomes(r.db)
        /\ ret' = Returned("fetch_all", r)
    /\ UNCHANGED inst

DbClose ==
    /\ DbBecomes(Database_close(TheDb))
    /\ ret' = [op |-> "close"]
    /\ UNCHANGED inst

\* The queries of a caller that reads by id as well.
ReadQueries ==
    Queries \cup {[sql |-> "SELECT * FROM users WHERE id = ?", params |-> <<IntV(1)>>]}

\* found = User.find(id) or User.first(); a found instance becomes the
\* instance at hand.
ModelFindId(id) ==
    \E r \in {Model_find(TheDb, now, id)} :
        /\ DbBecomes(r.db)
        /\ ret' = Returned("find", r)
        /\ inst' = IF r.ok /\ r.val.kind = "dict" THEN Some(r.val.row) ELSE inst

ModelFirst ==
    \E r \in {Model_first(TheDb, now, None, <<>>)} :
    /\ DbBecomes(r.db)
    /\ ret' = Returned("first", r)
    /\ inst' = IF r.ok /\ r.val.kind = "dict" THEN Some(r.val.row) ELSE inst

ModelAll ==
    /\ \E r \in {Model_all(TheDb, now)} :
        /\ DbBecomes(r.db)
        /\ ret' = Returned("all", r)
    /\ UNCHANGED inst

ModelWhereEmail(e) ==
    /\ \E r \in {Model_where(TheDb, now, "email = ?", <<StrV(e)>>)} :
        /\ DbBecomes(r.db)
        /\ ret' = Returned("where", r)
    /\ UNCHANGED inst

\* user = User(email=e)
ModelNew ==
    /\ \E e \in Emails : inst' = Some(<<<<"email", StrV(e)>>>>)
    /\ ret' = WroteStatement("new", TRUE, FALSE, None)
    /\ UNCHANGED <<pool, held, qcache, now, hist, qb, whereCalls, ctx, store>>

\* The ids callers give an instance they construct.
IdArgs == {IntV(0), IntV(1), NoneV}

\* user = User(id=i, email=e)
ModelNewWithId ==
    /\ \E i \in IdArgs : \E e \in Emails :
        inst' = Some(<<<<"id", i>>, <<"email", StrV(e)>>>>)
    /\ ret' = WroteStatement("new", TRUE, FALSE, None)
    /\ UNCHANGED <<pool, held, qcache, now, hist, qb, whereCalls, ctx, store>>

\* user.email = e
ModelSetEmail ==
    /\ inst # None
    /\ \E e \in Emails : inst' = Some(DictSet(inst[1], "email", StrV(e)))
    /\ ret' = WroteStatement("setattr", TRUE, FALSE, None)
    /\ UNCHANGED <<pool, held, qcache, now, hist, qb, whereCalls, ctx, store>>

ModelSave ==
    /\ inst # None
    /\ \E r \in {Model_save(TheDb, inst[1])} :
        /\ DbBecomes(r.db)
        /\ ret' = WroteStatement("save", r.ok, r.flag, Some(save_sql(inst[1])))
    /\ UNCHANGED inst

ModelDelete ==
    /\ inst # None
    /\ \E r \in {Model_delete(TheDb, inst[1])} :
        /\ DbBecomes(r.db)
        /\ ret' = WroteStatement("delete", r.ok, r.flag,
                                  IF HasId(inst[1]) THEN Some(delete_sql(inst[1]))
                                  ELSE None)
    /\ UNCHANGED inst

(***************************************************************************)
(* Two execution contexts sharing one Database.  Each call of the pool     *)
(* and of the cache is one step; ctx[c] is the call of fetch_all, save or  *)
(* delete context c is in: where it stands (pc), the SQL text and values   *)
(* it was made with, the rows it has read (res) and whether its statement  *)
(* ran (ok).  held[c] is the connection the call has acquired.             *)
(***************************************************************************)
NoCall == [pc |-> "idle", sql |-> "", params |-> <<>>, res |-> NoResult, ok |-> TRUE]

\* The connection the call of context c holds.
ConnOf(c) == CHOOSE x \in held[c] : TRUE

\* The instances the contexts save and delete.
SharedInstances ==
    {<<<<"email", StrV(e)>>>> : e \in Emails}
    \cup {<<<<"id", IntV(1)>>, <<"email", StrV(e)>>>> : e \in Emails}

\* The table is made before the contexts start.
SharedCreateTable ==
    /\ \A c \in Callers : ctx[c].pc = "idle"
    /\ DbCreateTable

\* fetch_all, lines 190-193: the cache lookup, and the return on a hit.
ReadGet(c) ==
    /\ ctx[c].pc = "idle"
    /\ \E q \in Queries :
        \E r \in {QueryCache_get(qcache, now, cache_key(q.sql, q.params))} :
        /\ qcache' = r.qc
        /\ IF TruthyResult(Cached(r.val))
           THEN /\ ret' = [op |-> "fetch_all", by |-> c, ok |-> TRUE, val |-> Cached(r.val), hit |-> TRUE]
                /\ UNCHANGED ctx
           ELSE /\ ctx' = [ctx EXCEPT ![c] = [NoCall EXCEPT !.pc = "read_got",
                                                           !.sql = q.sql,
                                                           !.params = q.params]]
                /\ ret' = [op |-> "cache.get", by |-> c]
    /\ UNCHANGED <<pool, held, now, hist, qb, whereCalls, store, inst>>

\* fetch_all, line 195.
ReadAcquire(c) ==
    /\ ctx[c].pc = "read_got"
    /\ CanAcquire(pool)
    /\ \E g \in {get_connection(pool)} :
        /\ pool' = g.pool
        /\ held' = [held EXCEPT ![c] = {g.conn}]
    /\ ctx' = [ctx EXCEPT ![c].pc = "read_conn"]
    /\ ret' = [op |-> "get_connection", by |-> c]
    /\ UNCHANGED <<qcache, now, hist, qb, whereCalls, store, inst>>

\* fetch_all, lines 197-200: the query and the rows it gives.
ReadQuery(c) ==
    /\ ctx[c].pc = "read_conn"
    /\ \E r \in {sqlite_execute(store, ConnOf(c) \in pool.closed,
                                 ctx[c].sql, ctx[c].params)} :
        ctx' = [ctx EXCEPT ![c] =
                   IF r.ok /\ (r.rows = <<>> \/ HasRowFactory(ConnOf(c)))
                   THEN [@ EXCEPT !.res = FetchResult(r.rows, FALSE),
                                  !.pc = IF r.rows # <<>> THEN "read_rows"
                                         ELSE "read_done"]
                   ELSE [@ EXCEPT !.ok = FALSE, !.pc = "read_done"]]
    /\ ret' = [op |-> "cursor.execute", by |-> c]
    /\ UNCHANGED <<pool, held, qcache, now, hist, qb, whereCalls, store, inst>>

\* fetch_all, lines 201-202.
ReadSet(c) ==
    /\ ctx[c].pc = "read_rows"
    /\ qcache' = QueryCache_set(qcache, now, cache_key(ctx[c].sql, ctx[c].params),
                                ctx[c].res)
    /\ ctx' = [ctx EXCEPT ![c].pc = "read_done"]
    /\ ret' = [op |-> "cache.set", by |-> c]
    /\ UNCHANGED <<pool, held, now, hist, qb, whereCalls, store, inst>>

\* fetch_all, lines 203-205: the connection goes back and the call ends.
ReadRelease(c) ==
    /\ ctx[c].pc = "read_done"
    /\ pool' = return_connection(pool, ConnOf(c))
    /\ held' = [held EXCEPT ![c] = {}]
    /\ ret' = [op |-> "fetch_all", by |-> c, ok |-> ctx[c].ok, val |-> ctx[c].res, hit |-> FALSE]
    /\ ctx' = [ctx EXCEPT ![c] = NoCall]
    /\ UNCHANGED <<qcache, now, hist, qb, whereCalls, store, inst>>

\* save (lines 288-305) or delete (310-314) of an instance, up to the
\* acquire in execute (162).
WriteAcquire(c) ==
    /\ ctx[c].pc = "idle"
    /\ CanAcquire(pool)
    /\ \E g \in {get_connection(pool)} :
        /\ pool' = g.pool
        /\ held' = [held EXCEPT ![c] = {g.conn}]
    /\ \E attrs \in SharedInstances :
        \E q \in {save_sql(attrs)}
                 \cup (IF HasId(attrs) THEN {delete_sql(attrs)} ELSE {}) :
        ctx' = [ctx EXCEPT ![c] = [NoCall EXCEPT !.pc = "write_conn",
                                                !.sql = q.sql,
                                                !.params = q.values]]
    /\ ret' = [op |-> "get_connection", by |-> c]
    /\ UNCHANGED <<qcache, now, hist, qb, whereCalls, store, inst>>

\* execute, lines 164-166: the statement and its commit.
WriteExecute(c) ==
    /\ ctx[c].pc = "write_conn"
    /\ \E r \in {sqlite_execute(store, ConnOf(c) \in pool.closed,
                                 ctx[c].sql, ctx[c].params)} :
        /\ r.store.seq <= MaxRowId
        /\ store' = r.store
        /\ ctx' = [ctx EXCEPT ![c].ok = r.ok, ![c].pc = "write_run"]
    /\ ret' = [op |-> "cursor.execute", by |-> c]
    /\ UNCHANGED <<pool, held, qcache, now, hist, qb, whereCalls, inst>>

\* execute, lines 168-169: the connection goes back; the call ends here
\* when the statement raised.
WriteRelease(c) ==
    /\ ctx[c].pc = "write_run"
    /\ pool' = return_connection(pool, ConnOf(c))
    /\ held' = [held EXCEPT ![c] = {}]
    /\ IF ctx[c].ok
       THEN /\ ctx' = [ctx EXCEPT ![c].pc = "write_back"]
            /\ ret' = [op |-> "return_connection", by |-> c]
       ELSE /\ ctx' = [ctx EXCEPT ![c] = NoCall]
            /\ ret' = [op |-> "write", by |-> c, ok |-> FALSE, val |-> NoResult, hit |-> FALSE]
    /\ UNCHANGED <<qcache, now, hist, qb, whereCalls, store, inst>>

\* save, lines 306-307, and delete, lines 315-316.
WriteClear(c) ==
    /\ ctx[c].pc = "write_back"
    /\ qcache' = QueryCache_clear(qcache)
    /\ ctx' = [ctx EXCEPT ![c] = NoCall]
    /\ ret' = [op |-> "write", by |-> c, ok |-> TRUE, val |-> NoResult, hit |-> FALSE]
    /\ UNCHANGED <<pool, held, now, hist, qb, whereCalls, store, inst>>

Init ==
    /\ pool = ConnectionPool_init
    /\ held = [a \in Callers |-> {}]
    /\ qcache = QueryCache_init
    /\ now = 0
    /\ hist = NoHist
    /\ qb = QueryBuilder_init("t")
    /\ whereCalls = <<>>
    /\ store = Store_init
    /\ inst = None
    /\ ret = [op |-> "init"]
    /\ ctx = [c \in Callers |-> NoCall]

NextPool ==
    \/ \E a \in Callers : Acquire(a)
    \/ \E a \in Callers : Release(a)
    \/ CloseAll

SpecPool == Init /\ [][NextPool]_vars

\* The pool used by callers that may release a connection twice.
NextPoolTwice ==
    \/ \E a \in Callers : Acquire(a)
    \/ \E a \in Callers : Release(a)
    \/ \E a \in Callers : ReleaseAgain(a)

SpecPoolTwice == Init /\ [][NextPoolTwice]_vars

NextCache ==
    \/ \E k \in Keys : CacheGet(k)
    \/ \E k \in Keys : \E v \in Values : CacheSet(k, v)
    \/ CacheClear
    \/ Tick
    \/ ClockBack

SpecCache == Init /\ [][NextCache]_vars

\* The cache used with two keys, over more than a day.
NextCacheClock ==
    \/ \E k \in {"k1", "k2"} : CacheGet(k)
    \/ \E k \in {"k1", "k2"} : \E v \in Values : CacheSet(k, v)
    \/ CacheClear
    \/ Tick
    \/ TickDay
    \/ ClockBack

SpecCacheClock == Init /\ [][NextCacheClock]_vars

\* The cache used with more keys than it has room for and one value,
\* while time passes.
FourKeys == Keys \cup {"k4"}

NextLazy ==
    \/ \E k \in FourKeys : CacheGet(k)
    \/ \E k \in FourKeys : CacheSet(k, "v1")
    \/ CacheClear
    \/ Tick

SpecLazy == Init /\ [][NextLazy]_vars

NextQB ==
    \/ QbSelect
    \/ QbWhere
    \/ QbJoin
    \/ QbLeftJoin
    \/ QbOrderBy
    \/ QbLimit
    \/ QbOffset
    \/ QbBuild

SpecQB == Init /\ [][NextQB]_vars

\* A caller of Database that also saves and deletes instances it constructs.
NextDB ==
    \/ DbCreateTable
    \/ DbExecute
    \/ \E q \in Queries : DbFetchOneQ(q)
    \/ \E q \in Queries : DbFetchAllQ(q)
    \/ ModelNew
    \/ ModelNewWithId
    \/ ModelSetEmail
    \/ ModelSave
    \/ ModelDelete

SpecDB == Init /\ [][NextDB]_vars

\* A caller of Model alone: instances are constructed, found, changed,
\* saved and deleted.
NextModel ==
    \/ DbCreateTable
    \/ \E id \in 1..MaxRowId : ModelFindId(id)
    \/ ModelFirst
    \/ ModelAll
    \/ \E e \in Emails : ModelWhereEmail(e)
    \/ ModelNew
    \/ ModelSetEmail
    \/ ModelSave
    \/ ModelDelete

SpecModel == Init /\ [][NextModel]_vars

\* A caller of Database that writes with execute and reads, while time
\* passes, and that may go on after it has called close.
NextRead ==
    \/ DbCreateTable
    \/ DbExecute
    \/ \E q \in ReadQueries : DbFetchOneQ(q)
    \/ \E q \in ReadQueries : DbFetchAllQ(q)
    \/ DbClose
    \/ Tick

SpecRead == Init /\ [][NextRead]_vars

\* Two contexts read and write through one Database, call by call.
NextShared ==
    \/ SharedCreateTable
    \/ \E c \in Callers : ReadGet(c)
    \/ \E c \in Callers : ReadAcquire(c)
    \/ \E c \in Callers : ReadQuery(c)
    \/ \E c \in Callers : ReadSet(c)
    \/ \E c \in Callers : ReadRelease(c)
    \/ \E c \in Callers : WriteAcquire(c)
    \/ \E c \in Callers : WriteExecute(c)
    \/ \E c \in Callers : WriteRelease(c)
    \/ \E c \in Callers : WriteClear(c)

SpecShared == Init /\ [][NextShared]_vars

(***************************************************************************)
(* Properties of ConnectionPool, under SpecPool.                           *)
(***************************************************************************)

\* C3: whatever acquires and releases were made, the pool holds at most
\* pool_size idle connections (in particular after every release).
C3_IdleBounded == Len(pool.connections) <= pool_size

\* A release that found the idle list full and so closed the connection.
C3_Witness ==
    /\ ret.op = "return_connection"
    /\ Len(pool.connections) = pool_size
    /\ ret.conn \in pool.closed
    /\ ret.conn \notin IdleSet(pool)

\* C4: when every caller releases only what it holds, no connection is held
\* by two callers or held while idle, acquire returns a connection no other
\* caller holds, and every connection opened is idle, held or closed.
C4_ExclusiveOwnership ==
    /\ \A a, b \in Callers : a # b => held[a] \cap held[b] = {}
    /\ \A a \in Callers : held[a] \cap IdleSet(pool) = {}
    /\ \A i, j \in 1..Len(pool.connections) :
           i # j => pool.connections[i] # pool.connections[j]
    /\ \A c \in 1..pool.opened :
           c \in IdleSet(pool) \/ c \in pool.closed \/ \E a \in Callers : c \in held[a]
    /\ ret.op = "get_connection" =>
           \A b \in Callers \ {ret.by} : ret.conn \notin held[b]

\* B is handed a pooled connection that was released earlier, while A has
\* connections checked out and overflow connections exist.
C4_Witness ==
    /\ ret.op = "get_connection"
    /\ ret.by = "B"
    /\ ~IsOverflow(ret.conn)
    /\ held["A"] # {}
    /\ pool.opened > pool_size
    /\ ret.conn \in held["B"]

\* C5: an overflow connection is closed when it is released and is never
\* in the idle list.
C5_OverflowNeverRetained ==
    /\ \A c \in IdleSet(pool) : ~IsOverflow(c)
    /\ (ret.op = "return_connection" /\ IsOverflow(ret.conn)) => ret.conn \in pool.closed

(***************************************************************************)
(* Properties of QueryCache, under SpecCache and SpecCacheClock.           *)
(***************************************************************************)

\* C6: the cache holds at most max_size entries, after each set and so at
\* all times.
C6_CacheBounded == Len(qcache.cache) <= max_size

\* A set that found the cache full, evicted K and stored another key.
C6_Witness ==
    /\ ret.op = "set"
    /\ ret.key # K
    /\ Len(qcache.cache) = max_size
    /\ hist.val # None
    /\ hist.others = max_size
    /\ ~DictHas(qcache.cache, K)

\* C7: a get of a key whose entry is older than ttl (of any age beyond ttl)
\* returns None and removes the entry.
C7_ExpiredBeyondTtl ==
    [][\A k \in Keys :
          (/\ CacheGet(k)
           /\ DictHas(qcache.cache, k)
           /\ now - DictGet(qcache.timestamps, k) > ttl)
          => (ret'.val = None /\ ~DictHas(qcache'.cache, k))]_vars

\* C8: get(K) after set(K, V), with no set(K, .) or clear and at most
\* max_size - 1 sets of other keys in between, returns V when the entry's
\* age is at most ttl, and leaves the cache as it was.
C8_GetReturnsLastSet ==
    [][(/\ CacheGet(K)
        /\ hist.val # None
        /\ hist.others <= max_size - 1
        /\ now - hist.at <= ttl)
       => (ret'.val = hist.val /\ qcache' = qcache)]_vars

\* The keys of the entries with the oldest insertedAt.
OldestKeys(ts) ==
    {ts[i][1] : i \in {i \in 1..Len(ts) : \A j \in 1..Len(ts) : ts[i][2] <= ts[j][2]}}

\* The cache after the entry of victim is removed and (k, v) is stored at t.
EvictThenStore(qc, victim, t, k, v) ==
    [cache |-> DictSet(DictDel(qc.cache, victim), k, v),
     timestamps |-> DictSet(DictDel(qc.timestamps, victim), k, t)]

\* K may be the entry removed only when no entry of the same insertedAt was
\* inserted before it: every such entry was stored by one of the hist.others
\* sets made since set(K, .).
MayEvict(victim) ==
    victim = K =>
        Cardinality(OldestKeys(qcache.timestamps) \ {K}) <= hist.others

\* C20: a set on a cache holding max_size entries removes exactly one
\* entry, one of the oldest insertedAt and among these the one inserted
\* earliest, and then stores the new entry; a set on a cache holding fewer
\* entries removes nothing.
C20_EvictsOldestInserted ==
    [][\A k \in Keys : \A v \in Values :
          CacheSet(k, v) =>
              IF Len(qcache.cache) < max_size
              THEN qcache' = [cache |-> DictSet(qcache.cache, k, v),
                              timestamps |-> DictSet(qcache.timestamps, k, now)]
              ELSE \E victim \in OldestKeys(qcache.timestamps) :
                      /\ MayEvict(victim)
                      /\ qcache' = EvictThenStore(qcache, victim, now, k, v)]_vars

(***************************************************************************)
(* Properties of QueryBuilder, under SpecQB.                               *)
(***************************************************************************)
RECURSIVE Flatten(_)
Flatten(seqs) ==
    IF seqs = <<>> THEN <<>> ELSE Head(seqs) \o Flatten(Tail(seqs))

\* <<1, ..., 1, 2, ..., 2, ...>>: index i, counts[i] times.
RECURSIVE Owners(_, _)
Owners(counts, i) ==
    IF i > Len(counts) THEN <<>>
    ELSE [n \in 1..counts[i] |-> i] \o Owners(counts, i + 1)

\* The predicate fragments of a SQL text, left to right: the pieces that
\* follow " WHERE ", separated by " AND ".
RECURSIVE FragmentsFrom(_, _)
FragmentsFrom(sql, i) ==
    IF i > Len(sql) THEN <<>>
    ELSE <<sql[i]>> \o
         (IF i + 1 <= Len(sql) /\ sql[i + 1] = " AND "
          THEN FragmentsFrom(sql, i + 2) ELSE <<>>)

WhereFragments(sql) ==
    IF \E i \in 1..Len(sql) : sql[i] = " WHERE "
    THEN FragmentsFrom(sql, 1 + CHOOSE i \in 1..Len(sql) : sql[i] = " WHERE ")
    ELSE <<>>

HasClause(sql, keyword, n) ==
    \E i \in 1..(Len(sql) - 1) : sql[i] = keyword /\ sql[i + 1] = ToString(n)

HasKeyword(sql, keyword) == \E i \in 1..Len(sql) : sql[i] = keyword

\* C9: build() returns as bound values the values of the where() calls,
\* concatenated in call order; the fragments stand in the SQL text in call
\* order; so, when every fragment was given as many values as it has
\* placeholders, the i-th placeholder of the text and the i-th bound value
\* come from the same where() call.
C9_BoundValuesInCallOrder ==
    ret.op = "build" =>
        LET frags == WhereFragments(ret.sql) IN
        /\ ret.values = Flatten([i \in 1..Len(whereCalls) |-> whereCalls[i].values])
        /\ frags = [i \in 1..Len(whereCalls) |-> whereCalls[i].condition]
        /\ (\A i \in 1..Len(whereCalls) :
                Len(whereCalls[i].values) = Placeholders(whereCalls[i].condition))
           => Owners([i \in 1..Len(frags) |-> Placeholders(frags[i])], 1)
              = Owners([i \in 1..Len(whereCalls) |-> Len(whereCalls[i].values)], 1)

\* A build after where("d BETWEEN ? AND ?", 3, 4) and where("a = ?", 1).
C9_Witness ==
    /\ ret.op = "build"
    /\ Len(whereCalls) = 2
    /\ whereCalls[1].values = <<3, 4>>
    /\ whereCalls[2].values = <<1>>
    /\ ret.values = <<3, 4, 1>>
    /\ WhereFragments(ret.sql) = <<"d BETWEEN ? AND ?", "a = ?">>

\* C10: build() emits " LIMIT n" exactly when limit(n) was called and
\* " OFFSET n" exactly when offset(n) was called, n = 0 included.
C10_LimitOffsetEmitted ==
    ret.op = "build" =>
        /\ qb.limit_value # None => HasClause(ret.sql, " LIMIT ", qb.limit_value[1])
        /\ qb.limit_value = None => ~HasKeyword(ret.sql, " LIMIT ")
        /\ qb.offset_value # None => HasClause(ret.sql, " OFFSET ", qb.offset_value[1])
        /\ qb.offset_value = None => ~HasKeyword(ret.sql, " OFFSET ")

\* The join clauses and the ORDER BY clauses the callers of the builder make.
JoinTexts == {"JOIN u ON u.id = t.uid", "LEFT JOIN v ON v.id = t.vid"}

OrderTexts == {"ORDER BY name ASC", "ORDER BY name DESC"}

\* The positions of the pieces of a SQL text that are in S.
Idx(sql, S) == {i \in 1..Len(sql) : sql[i] \in S}

\* The positions of the WHERE clause: the keyword, the fragments and the
\* " AND " between them.
WhereSpan(sql) ==
    IF HasKeyword(sql, " WHERE ")
    THEN LET w == CHOOSE i \in 1..Len(sql) : sql[i] = " WHERE "
         IN w..(w + 2 * Len(WhereFragments(sql)) - 1)
    ELSE {}

Before(A, B) == \A i \in A : \A j \in B : i < j

InOrder(spans) ==
    \A a, b \in 1..Len(spans) : a < b => Before(spans[a], spans[b])

\* The join clauses of a SQL text, left to right.
JoinsOf(sql) == SelectSeq(sql, LAMBDA p : p \in JoinTexts)

C11_BuildOrder ==
    ret.op = "build" =>
        /\ Len(ret.sql) >= 4
        /\ ret.sql[1] = "SELECT "
        /\ ret.sql[2] = Text(join_pieces(", ", qb.select_fields))
        /\ ret.sql[3] = " FROM "
        /\ ret.sql[4] = qb.table
        /\ InOrder(<<1..4, Idx(ret.sql, JoinTexts), WhereSpan(ret.sql),
                     Idx(ret.sql, OrderTexts), Idx(ret.sql, {" LIMIT "}),
                     Idx(ret.sql, {" OFFSET "})>>)
        /\ \A kw \in {{" WHERE "}, OrderTexts, {" LIMIT "}, {" OFFSET "}} :
               Cardinality(Idx(ret.sql, kw)) <= 1
        /\ WhereFragments(ret.sql) = [i \in 1..Len(whereCalls) |-> whereCalls[i].condition]
        /\ (/\ whereCalls = <<[condition |-> "a = ?", values |-> <<1>>],
                               [condition |-> "b = ?", values |-> <<2>>]>>
            /\ qb.limit_value = Some(5)
            /\ qb.select_fields = <<"*">>
            /\ qb.joins = <<>>
            /\ qb.order_by_clause = None
            /\ qb.offset_value = None)
           => (/\ Text(ret.sql) = "SELECT * FROM t WHERE a = ? AND b = ? LIMIT 5"
               /\ ret.values = <<1, 2>>)

C11_JoinStep ==
    /\ QbJoin => JoinsOf(build(qb').sql)
                    = Append(JoinsOf(build(qb).sql), "JOIN u ON u.id = t.uid")
    /\ QbLeftJoin => JoinsOf(build(qb').sql)
                        = Append(JoinsOf(build(qb).sql), "LEFT JOIN v ON v.id = t.vid")

\* C11: whatever the order of the fluent calls, the SQL build() returns has
\* its clauses in the order SELECT fields, FROM table, joins, WHERE, ORDER
\* BY, LIMIT, OFFSET, each at most once; the joins stand in call order and
\* the predicate fragments in call order joined by " AND "; on table t,
\* where("a = ?", 1), where("b = ?", 2), limit(5) builds exactly
\* "SELECT * FROM t WHERE a = ? AND b = ? LIMIT 5" with values (1, 2).
C11_ClauseOrder == []C11_BuildOrder /\ [][C11_JoinStep]_vars

\* A build with every clause present, after the calls were made in the
\* reverse of the order of the clauses (the limit before the order,
\* the where calls before the joins).
C11_Witness ==
    /\ ret.op = "build"
    /\ Len(whereCalls) = 2
    /\ Len(qb.joins) = 2
    /\ qb.joins[1] # qb.joins[2]
    /\ qb.order_by_clause # None
    /\ TruthyInt(qb.limit_value)
    /\ TruthyInt(qb.offset_value)
    /\ Idx(ret.sql, {" OFFSET "}) = {Len(ret.sql) - 1}
    /\ Idx(ret.sql, {" LIMIT "}) = {Len(ret.sql) - 3}

\* The build of the example.
C11_ExampleWitness ==
    /\ ret.op = "build"
    /\ Text(ret.sql) = "SELECT * FROM t WHERE a = ? AND b = ? LIMIT 5"
    /\ ret.values = <<1, 2>>

(***************************************************************************)
(* Properties of Database and Model, under SpecDB.                         *)
(***************************************************************************)
CacheIsEmpty == qcache.cache = <<>> /\ qcache.timestamps = <<>>

\* C1: after a Database.execute that returned, the query cache is empty (so
\* that a later fetch of a key cached before the write reads the store).
C1_ExecuteClearsCache == (ret.op = "execute" /\ ret.ok) => CacheIsEmpty

\* C2: a save() or delete() that returned True and a create_table() that
\* returned leave the query cache without entries.
C2_WritesClearCache ==
    (/\ ret.op \in {"save", "delete", "create_table"}
     /\ ret.ok
     /\ ret.op = "create_table" \/ ret.flag)
    => CacheIsEmpty

\* A save() that updated a row while the cache held entries.
C2_Witness ==
    /\ ret.op = "save"
    /\ ret.flag
    /\ ret.before > 0
    /\ inst # None
    /\ IsUpdate(inst[1])
    /\ CacheIsEmpty

\* A call of execute, create_table, save or delete.
WriteStep == DbExecute \/ DbCreateTable \/ ModelSave \/ ModelDelete

\* The statement the call passed to cursor.execute fails on the store as
\* it is before the call.
StatementFails(stmt) ==
    /\ stmt # None
    /\ ~sqlite_execute(store, FALSE, stmt[1].sql, stmt[1].values).ok

\* C12: when the statement fails inside execute, called directly or by
\* save, delete or create_table, the call raises and the query cache (and
\* the store) is as it was before the call.
C12_FailureLeavesCache ==
    [][WriteStep =>
          /\ StatementFails(ret'.stmt) => ~ret'.ok
          /\ ~ret'.ok => (qcache' = qcache /\ store' = store)]_vars

\* A save() whose statement failed while the cache held entries.
C12_Witness ==
    /\ ret.op = "save"
    /\ ~ret.ok
    /\ ret.before > 0
    /\ Len(qcache.cache) = ret.before

\* C13: save() and delete() do not return True when the statement they
\* passed to execute failed: the call raises instead.
C13_NoSuccessOnFailure ==
    [][(ModelSave \/ ModelDelete) =>
          /\ StatementFails(ret'.stmt) => (~ret'.flag /\ ~ret'.ok)
          /\ ret'.flag => (ret'.stmt # None /\ ~StatementFails(ret'.stmt))]_vars

\* A delete() of an instance with an id whose statement failed (the table
\* does not exist).
C13_Witness ==
    /\ ret.op = "delete"
    /\ ret.stmt # None
    /\ ~ret.ok
    /\ ~ret.flag

(***************************************************************************)
(* Properties of the read path of Database, under SpecRead.                *)
(***************************************************************************)
KeyOf(q) == cache_key(q.sql, q.params)

\* The cache holds an entry for the query that is at most ttl old.
Unexpired(q) ==
    /\ DictHas(qcache.cache, KeyOf(q))
    /\ now - DictGet(qcache.timestamps, KeyOf(q)) \in 0..ttl

\* A call of fetch_one or fetch_all with the query.
FetchStep(q) == DbFetchOneQ(q) \/ DbFetchAllQ(q)

\* The rows of the store the query selects.
MatchingRows(q) ==
    IF q.params = <<>> THEN store.rows
    ELSE SelectSeq(store.rows, LAMBDA r : r.id = q.params[1].i)

\* The dict without the entry of key.
Without(d, key) == SelectSeq(d, LAMBDA e : e[1] # key)

\* C14: a fetch_one or fetch_all that finds an unexpired entry for its key
\* returns the cached value, takes no connection and sends no statement,
\* and leaves pool, cache and store as they were.
C14_HitTouchesNothing ==
    [][\A q \in ReadQueries :
          (FetchStep(q) /\ Unexpired(q)) =>
              /\ ret'.ok
              /\ ret'.hit
              /\ ret'.val = DictGet(qcache.cache, KeyOf(q))
              /\ pool' = pool
              /\ qcache' = qcache
              /\ store' = store]_vars

\* A fetch_all that returned the rows cached before a row was added to the
\* store.
C14_Witness ==
    /\ ret.op = "fetch_all"
    /\ ret.hit
    /\ ret.val.kind = "list"
    /\ Len(ret.val.rows) < Len(store.rows)
    /\ qcache.cache # <<>>

\* C15: on a miss (no unexpired entry for the key) the key gets an entry
\* exactly when the result is non-empty, and a read with an empty result
\* leaves the cache unchanged.
C15_EmptyReadLeavesCache ==
    [][\A q \in ReadQueries :
          (FetchStep(q) /\ ~Unexpired(q) /\ ret'.ok) =>
              /\ DictHas(qcache'.cache, KeyOf(q)) <=> TruthyResult(ret'.val)
              /\ ~TruthyResult(ret'.val) => qcache' = qcache]_vars

\* What does hold on a miss: the store is queried and the key gets an
\* entry, with the result as value, exactly when the result is non-empty; a
\* read with an empty result leaves no entry for the key (an expired one is
\* removed by the lookup) and every other entry as it was.
MissCachesNonEmpty ==
    [][\A q \in ReadQueries :
          (FetchStep(q) /\ ~Unexpired(q) /\ ret'.ok) =>
              /\ ~ret'.hit
              /\ TruthyResult(ret'.val) <=> MatchingRows(q) # <<>>
              /\ DictHas(qcache'.cache, KeyOf(q)) <=> TruthyResult(ret'.val)
              /\ TruthyResult(ret'.val) =>
                     /\ DictGet(qcache'.cache, KeyOf(q)) = ret'.val
                     /\ DictGet(qcache'.timestamps, KeyOf(q)) = now
              /\ ~TruthyResult(ret'.val) =>
                     /\ qcache'.cache = Without(qcache.cache, KeyOf(q))
                     /\ qcache'.timestamps = Without(qcache.timestamps, KeyOf(q))
                     /\ ~Unexpired(q)']_vars

\* A read that missed on an expired entry, found no row and left the cache
\* without the entry.
MissDroppedExpired ==
    /\ ret.op \in {"fetch_one", "fetch_all"}
    /\ ret.ok
    /\ ~ret.hit
    /\ ~TruthyResult(ret.val)
    /\ store.created
    /\ Len(qcache.cache) < ret.before

(***************************************************************************)
(* Properties of Model.save and Model.delete, under SpecDB.                *)
(***************************************************************************)
\* The attributes other than id, their names and the values of a dict.
NonKey(attrs) == SelectSeq(attrs, LAMBDA e : e[1] # "id")

NamesOf(attrs) == [i \in 1..Len(attrs) |-> attrs[i][1]]

ValuesOf(attrs) == [i \in 1..Len(attrs) |-> attrs[i][2]]

\* The instance has an id attribute that is neither None nor 0 (nor "").
HasTruthyId(attrs) ==
    \E i \in 1..Len(attrs) :
        /\ attrs[i][1] = "id"
        /\ attrs[i][2] \notin {NoneV, IntV(0), StrV("")}

\* The UPDATE that sets the named columns and the INSERT that gives them.
UpdateText(names) ==
    CASE names = <<"email">> -> "UPDATE users SET email = ? WHERE id = ?"
      [] names = <<>> -> "UPDATE users SET  WHERE id = ?"

InsertText(names) ==
    CASE names = <<"email">> -> "INSERT INTO users (email) VALUES (?)"
      [] names = <<"id", "email">> -> "INSERT INTO users (id, email) VALUES (?, ?)"
      [] names = <<"email", "id">> -> "INSERT INTO users (email, id) VALUES (?, ?)"

\* C16: save() sends an UPDATE of every attribute but id, keyed by the id,
\* exactly when the instance has an id attribute with a truthy value;
\* otherwise (no id attribute, id 0, id None) it sends an INSERT of all
\* the attributes of the instance.
C16_UpdateIffTruthyId ==
    ret.op = "save" =>
        IF HasTruthyId(inst[1])
        THEN /\ ret.stmt[1].sql = UpdateText(NamesOf(NonKey(inst[1])))
             /\ ret.stmt[1].values
                  = ValuesOf(NonKey(inst[1])) \o <<DictGet(inst[1], "id")>>
        ELSE /\ ret.stmt[1].sql = InsertText(NamesOf(inst[1]))
             /\ ret.stmt[1].values = ValuesOf(inst[1])

\* A save() of User(id=0, email=e) that inserted a row of id 0.
C16_Witness ==
    /\ ret.op = "save"
    /\ ret.flag
    /\ DictHas(inst[1], "id")
    /\ DictGet(inst[1], "id") = IntV(0)
    /\ Parse(ret.stmt[1].sql).kind = "insert"
    /\ 0 \in RowIds(store.rows)

\* The last call was a save() that returned True after an INSERT.
SavedByInsert ==
    /\ ret.op = "save"
    /\ ret.flag
    /\ Parse(ret.stmt[1].sql).kind = "insert"

\* C17: after a save() that inserted, the instance carries the id of the
\* row the store made for it, and a save() that follows on the same
\* instance sends an UPDATE and leaves the number of rows as it is.
C17_InsertSetsId ==
    /\ [](SavedByInsert =>
             /\ DictHas(inst[1], "id")
             /\ \E i \in 1..Len(store.rows) :
                    /\ IntV(store.rows[i].id) = DictGet(inst[1], "id")
                    /\ StrV(store.rows[i].email) = DictGet(inst[1], "email"))
    /\ [][(SavedByInsert /\ ModelSave) =>
             /\ Parse(ret'.stmt[1].sql).kind = "update"
             /\ ret'.flag
             /\ Len(store'.rows) = Len(store.rows)]_vars

\* C18: delete() of an instance without an id attribute returns False,
\* sends no statement and leaves store, pool and cache as they were;
\* delete() of an instance with an id attribute removes the rows whose id
\* is that value and no other row.
C18_DeleteById ==
    [][ModelDelete =>
          IF ~DictHas(inst[1], "id")
          THEN /\ ret'.ok
               /\ ~ret'.flag
               /\ ret'.stmt = None
               /\ store' = store
               /\ pool' = pool
               /\ qcache' = qcache
          ELSE ret'.ok =>
               /\ ret'.flag
               /\ store'.rows
                    = SelectSeq(store.rows,
                                LAMBDA r : IntV(r.id) # DictGet(inst[1], "id"))]_vars

\* A delete() of an instance of id 1 that removed the row of id 1 and left
\* another row.
C18_Witness ==
    /\ ret.op = "delete"
    /\ ret.flag
    /\ DictGet(inst[1], "id") = IntV(1)
    /\ store.seq >= 2
    /\ RowIds(store.rows) # {}
    /\ 1 \notin RowIds(store.rows)

(***************************************************************************)
(* Properties of Model read after write, under SpecModel.                  *)
(***************************************************************************)
\* The last call was a save() that returned True, and the store holds the
\* instance as the row of the given id.
SavedAsRow(id) ==
    /\ ret.op = "save"
    /\ ret.flag
    /\ DictHas(inst[1], "email")
    /\ \E i \in 1..Len(store.rows) :
           /\ store.rows[i].id = id
           /\ StrV(store.rows[i].email) = DictGet(inst[1], "email")
    /\ DictHas(inst[1], "id") => DictGet(inst[1], "id") = IntV(id)

\* C19: right after a save() that stored the instance, whatever find, all,
\* where and first calls were made before it, find() with the id of the
\* row returns an instance with the saved values, and where() on the email
\* returns exactly one instance, with the saved values.
C19_ReadYourWrites ==
    [][\A id \in 1..MaxRowId :
          SavedAsRow(id) =>
              /\ ModelFindId(id) =>
                     /\ ret'.ok
                     /\ ret'.val.kind = "dict"
                     /\ ret'.val.row = <<<<"id", IntV(id)>>,
                                         <<"email", DictGet(inst[1], "email")>>>>
              /\ \A e \in Emails :
                     (ModelWhereEmail(e) /\ StrV(e) = DictGet(inst[1], "email")) =>
                         /\ ret'.ok
                         /\ ret'.val.kind = "list"
                         /\ ret'.val.rows = <<<<<<"id", IntV(id)>>,
                                                <<"email", StrV(e)>>>>>>]_vars

\* A find() that read the store because a write had emptied the cache and
\* returned the row the second save stored.
C19_Witness ==
    /\ ret.op = "find"
    /\ ret.ok
    /\ ~ret.hit
    /\ ret.before = 0
    /\ ret.val.kind = "dict"
    /\ DictGet(ret.val.row, "id") = IntV(2)
    /\ inst = Some(ret.val.row)
    /\ Len(store.rows) = 2

(***************************************************************************)
(* Further properties of QueryCache, under SpecLazy.                       *)
(***************************************************************************)
\* The entries of the dict whose key is not key.
Others(d, key) == SelectSeq(d, LAMBDA e : e[1] # key)

\* C21: expiry is lazy.  A step of the clock alone leaves the cache as it
\* is; get(k) leaves the entry of every other key as it is; and a set on a
\* cache of max_size entries evicts one of them, expired or not.
C21_LazyExpiry ==
    [][/\ (Tick \/ ClockBack) => qcache' = qcache
       /\ \A k \in FourKeys :
              CacheGet(k) =>
                  /\ Others(qcache'.cache, k) = Others(qcache.cache, k)
                  /\ Others(qcache'.timestamps, k) = Others(qcache.timestamps, k)
       /\ \A k \in FourKeys : \A v \in Values :
              (CacheSet(k, v) /\ Len(qcache.cache) = max_size) =>
                  \E victim \in DictKeys(qcache.cache) :
                      qcache' = EvictThenStore(qcache, victim, now, k, v)]_vars

\* A get(K) found K expired and removed it, and left an entry of another
\* key that is expired as well.
C21_Witness ==
    /\ ret.op = "get"
    /\ ret.key = K
    /\ ret.val = None
    /\ hist.val # None
    /\ hist.others = 0
    /\ ~DictHas(qcache.cache, K)
    /\ \E i \in 1..Len(qcache.timestamps) : now - qcache.timestamps[i][2] > ttl

\* C30: the value dict and the timestamp dict of a QueryCache have the
\* same keys, after any sequence of get, set and clear.
C30_SameKeys == DictKeys(qcache.cache) = DictKeys(qcache.timestamps)

\* A get removed the expired entry of its key from both dicts and other
\* entries remain in both.
C30_Witness ==
    /\ ret.op = "get"
    /\ ret.val = None
    /\ ret.key = K
    /\ hist.val # None
    /\ hist.others = 0
    /\ ~DictHas(qcache.cache, K)
    /\ ~DictHas(qcache.timestamps, K)
    /\ Len(qcache.cache) = max_size - 1
    /\ Len(qcache.timestamps) = max_size - 1

(***************************************************************************)
(* Further properties of ConnectionPool, under SpecPool and SpecPoolTwice. *)
(***************************************************************************)
\* The last element of a non-empty sequence.
Last(q) == q[Len(q)]

\* C22: get_connection always returns.  From a non-empty idle list it takes
\* the last connection, which is the one released most recently if a
\* release came just before; from an empty idle list it opens a new
\* connection and the idle list stays empty.
C22_AcquireLifo ==
    [][\A a \in Callers :
          Acquire(a) =>
              /\ ret'.op = "get_connection"
              /\ IF pool.connections # <<>>
                 THEN /\ ret'.conn = Last(pool.connections)
                      /\ pool'.connections = SubSeq(pool.connections, 1, Len(pool.connections) - 1)
                      /\ pool'.opened = pool.opened
                      /\ (ret.op = "return_connection" /\ ret.conn \in IdleSet(pool))
                            => ret'.conn = ret.conn
                 ELSE /\ ret'.conn \notin 1..pool.opened
                      /\ pool'.opened = pool.opened + 1
                      /\ pool'.connections = <<>>]_vars

\* An acquire took an initial connection from an idle list of more than
\* one, after an overflow connection had been opened.
C22_Witness ==
    /\ ret.op = "get_connection"
    /\ ~IsOverflow(ret.conn)
    /\ pool.opened > pool_size
    /\ pool.connections # <<>>

\* C23: close_all closes every connection that is idle when it is called
\* and no other: a connection a caller holds is closed after the call only
\* if it was closed before.
C23_CloseAllIdleOnly ==
    [][CloseAll =>
          /\ IdleSet(pool) \subseteq pool'.closed
          /\ held' = held
          /\ \A a \in Callers : \A c \in held[a] :
                 c \in pool'.closed <=> c \in pool.closed]_vars

\* close_all ran with a connection idle, now closed, and a connection
\* held, still open.
C23_Witness ==
    /\ ret.op = "close_all"
    /\ IdleSet(pool) # {}
    /\ IdleSet(pool) \subseteq pool.closed
    /\ \E a \in Callers : held[a] # {} /\ held[a] \cap pool.closed = {}

\* C27: no idle connection is closed, and get_connection returns no closed
\* connection.
C27_IdleNeverClosed ==
    /\ IdleSet(pool) \cap pool.closed = {}
    /\ ret.op = "get_connection" => ret.conn \notin pool.closed

\* C28: no connection is in the idle list twice, and no connection is held
\* by two callers.
C28_IdleNoDuplicates ==
    /\ \A i, j \in 1..Len(pool.connections) :
           i # j => pool.connections[i] # pool.connections[j]
    /\ \A a, b \in Callers : a # b => held[a] \cap held[b] = {}

\* C29: every connection get_connection hands out has the row factory
\* that yields rows as mappings.
C29_RowsAsMappings ==
    ret.op = "get_connection" => HasRowFactory(ret.conn)

(***************************************************************************)
(* Further properties of Database, under SpecRead and SpecDB.              *)
(***************************************************************************)
DatabaseOps == {"create_table", "execute", "fetch_one", "fetch_all"}

C25_ResultShapes ==
    /\ (ret.op = "fetch_all" /\ ret.ok) => ret.val.kind = "list"
    /\ (ret.op = "fetch_one" /\ ret.ok) => ret.val.kind \in {"dict", "none"}

(***************************************************************************)
(* A Database shared by two contexts, under SpecShared.                    *)
(***************************************************************************)
\* No call is in flight.
AllIdle == \A c \in Callers : ctx[c].pc = "idle"

\* What fetch_all of the query q reads from the store as it is.
RowsNow(q) ==
    FetchResult(sqlite_execute(store, FALSE, q.sql, q.params).rows, FALSE)

\* C26: when no call is in flight, whatever the cache holds for a query is
\* what the store holds for it, so that a later read returns the rows of
\* the store after the last write.
C26_NoStaleRows ==
    AllIdle =>
        \A q \in Queries :
            DictHas(qcache.cache, cache_key(q.sql, q.params)) =>
                DictGet(qcache.cache, cache_key(q.sql, q.params)) = RowsNow(q)

====
